---- MODULE Spec2Model ----
(***************************************************************************)
(* A model of the events-and-bookings data layer:                          *)
(*   - the cached connection helper connectDB (lib/mongodb),               *)
(*   - the Event model: generateSlug, normalizeDate, normalizeTime, the    *)
(*     schema and its pre-save hook (both variants of event.model.ts),     *)
(*   - the Booking model: the schema and its pre-save hook (both variants  *)
(*     of booking.model.ts).                                               *)
(* Strings are sequences of one-character strings, so that trimming,       *)
(* lower-casing and the regular expressions are computed, not assumed.     *)
(***************************************************************************)
EXTENDS Integers, Sequences, FiniteSets, TLC

VARIABLES
    \* ---- connection manager (lib/mongodb) ----
    conn,       \* cached.conn: 0 is null, otherwise the handle
    promise,    \* cached.promise: 0 is null, otherwise the attempt it belongs to
    driver,     \* per attempt, mongoose.connect's own promise: pending/ok/failed
    attempts,   \* per attempt, the promise stored in cached.promise
    reactions,  \* per attempt, the callers awaiting it while it is pending
    jobs,       \* the microtask queue
    running,    \* TRUE while caller code (a task or a queued callback) executes
    pc,         \* per connectDB call: idle / awaiting / returned / threw
    awaits,     \* per connectDB call: the attempt it awaits (0: none)
    ret,        \* per connectDB call: the handle it returned (0: none)
    \* ---- normalizeTime ----
    timeIn,     \* the argument
    timeOut,    \* the result: [ok, val], or Pending before the call
    \* ---- Event model ----
    evariant,   \* which variant of event.model.ts is compiled: 1 or 2
    events,     \* the Event collection: a sequence of persisted documents
    lastE,      \* the last Event operation and its outcome
    \* ---- Booking model ----
    bvariant,   \* which variant of booking.model.ts is compiled: 1 or 2
    bookings,   \* the Booking collection: a sequence of persisted documents
    lastB       \* the last Booking operation and its outcome

connVars  == <<conn, promise, driver, attempts, reactions, jobs, running, pc, awaits, ret>>
timeVars  == <<timeIn, timeOut>>
eventVars == <<evariant, events, lastE>>
bookVars  == <<bvariant, bookings, lastB>>
vars      == <<connVars, timeVars, eventVars, bookVars>>

\* ---------------------------------------------------------------- bounds
\* connectDB calls made during a run
NumCallers == 4
\* mongoose.connect invocations during a run
MaxAttempts == 3
\* caller callbacks waiting in the microtask queue at one time
MaxUserJobs == 2

Callers    == 1..NumCallers
AttemptIds == 1..MaxAttempts

\* ================================================================
\* Connection manager
\* ================================================================

UserJob       == [kind |-> "user",   arg |-> 0, ok |-> TRUE]
SettleJob(a, b) == [kind |-> "settle", arg |-> a, ok |-> b]
ResumeJob(c)  == [kind |-> "resume", arg |-> c, ok |-> TRUE]

\* The handle mongoose.connect resolves with; one per attempt, so that two
\* attempts handing out different handles can be told apart.
Handle(a) == a

UserJobsQueued == Cardinality({i \in 1..Len(jobs) : jobs[i].kind = "user"})

\* The next connectDB call: calls are numbered in the order they are made.
NextCaller == Cardinality({c \in Callers : pc[c] # "idle"}) + 1

\* A task (an incoming request, a timer) starts running caller code.
StartTask ==
    /\ ~running
    /\ jobs = <<>>
    /\ running' = TRUE
    /\ UNCHANGED <<conn, promise, driver, attempts, reactions, jobs, pc, awaits, ret>>
    /\ UNCHANGED <<timeVars, eventVars, bookVars>>

\* A queued caller callback reaches the head of the microtask queue and runs.
RunUserJob ==
    /\ ~running
    /\ jobs # <<>>
    /\ Head(jobs).kind = "user"
    /\ jobs' = Tail(jobs)
    /\ running' = TRUE
    /\ UNCHANGED <<conn, promise, driver, attempts, reactions, pc, awaits, ret>>
    /\ UNCHANGED <<timeVars, eventVars, bookVars>>

\* Running caller code queues a callback (promise.then(...), an await).
Defer ==
    /\ running
    /\ UserJobsQueued < MaxUserJobs
    /\ jobs' = Append(jobs, UserJob)
    /\ UNCHANGED <<conn, promise, driver, attempts, reactions, running, pc, awaits, ret>>
    /\ UNCHANGED <<timeVars, eventVars, bookVars>>

\* The running caller code returns to the event loop.
EndRun ==
    /\ running
    /\ running' = FALSE
    /\ UNCHANGED <<conn, promise, driver, attempts, reactions, jobs, pc, awaits, ret>>
    /\ UNCHANGED <<timeVars, eventVars, bookVars>>

\* if (!cached.promise): whether connectDB starts a new attempt.
NoPromiseMutant(p) == TRUE
NoPromise(p) == p = 0

\* connectDB() up to its first await: return the cached handle, or create the
\* attempt if none is stored, then await cached.promise.
ConnectDB(c) ==
    /\ running
    /\ c = NextCaller
    /\ c \in Callers
    /\ UNCHANGED <<timeVars, eventVars, bookVars>>
    /\ IF conn # 0
         THEN /\ pc' = [pc EXCEPT ![c] = "returned"]
              /\ ret' = [ret EXCEPT ![c] = conn]
              /\ UNCHANGED <<conn, promise, driver, attempts, reactions, jobs, running, awaits>>
         ELSE LET fresh == NoPromise(promise)
                  p     == IF fresh THEN Len(attempts) + 1 ELSE promise
                  att   == IF fresh THEN Append(attempts, "pending") ELSE attempts
                  rea   == IF fresh THEN Append(reactions, <<>>) ELSE reactions
              IN  /\ fresh => Len(attempts) < MaxAttempts
                  /\ promise' = p
                  /\ attempts' = att
                  /\ driver' = IF fresh THEN Append(driver, "pending") ELSE driver
                  /\ IF att[p] = "pending"
                       THEN /\ reactions' = [rea EXCEPT ![p] = Append(@, c)]
                            /\ jobs' = jobs
                       ELSE /\ reactions' = rea
                            /\ jobs' = Append(jobs, ResumeJob(c))
                  /\ pc' = [pc EXCEPT ![c] = "awaiting"]
                  /\ awaits' = [awaits EXCEPT ![c] = p]
                  /\ UNCHANGED <<conn, running, ret>>

\* mongoose.connect's promise settles (the driver connected, or gave up); the
\* reaction that settles cached.promise, the .then of line 59, is queued.
DriverSettle(a, b) ==
    /\ ~running
    /\ a \in 1..Len(driver)
    /\ driver[a] = "pending"
    /\ driver' = [driver EXCEPT ![a] = IF b THEN "ok" ELSE "failed"]
    /\ jobs' = Append(jobs, SettleJob(a, b))
    /\ UNCHANGED <<conn, promise, attempts, reactions, running, pc, awaits, ret>>
    /\ UNCHANGED <<timeVars, eventVars, bookVars>>

RECURSIVE ResumeJobs(_)
ResumeJobs(cs) ==
    IF cs = <<>> THEN <<>> ELSE <<ResumeJob(Head(cs))>> \o ResumeJobs(Tail(cs))

\* The .then reaction runs: the promise in cached.promise settles and the
\* continuation of every caller awaiting it is queued, in await order.
RunSettleJob ==
    /\ ~running
    /\ jobs # <<>>
    /\ Head(jobs).kind = "settle"
    /\ LET a == Head(jobs).arg
       IN  /\ attempts' = [attempts EXCEPT ![a] = IF Head(jobs).ok THEN "fulfilled" ELSE "rejected"]
           /\ jobs' = Tail(jobs) \o ResumeJobs(reactions[a])
           /\ reactions' = [reactions EXCEPT ![a] = <<>>]
    /\ UNCHANGED <<conn, promise, driver, running, pc, awaits, ret>>
    /\ UNCHANGED <<timeVars, eventVars, bookVars>>

\* catch: cached.promise = null.  The slot after a failed await.
ResetPromise(p, a) == 0

\* connectDB() after its await: cache and return the handle, or reset the
\* pending slot and rethrow.
RunResumeJob ==
    /\ ~running
    /\ jobs # <<>>
    /\ Head(jobs).kind = "resume"
    /\ LET c == Head(jobs).arg
           a == awaits[c]
       IN  IF attempts[a] = "fulfilled"
             THEN /\ conn' = Handle(a)
                  /\ ret' = [ret EXCEPT ![c] = Handle(a)]
                  /\ pc' = [pc EXCEPT ![c] = "returned"]
                  /\ UNCHANGED promise
             ELSE /\ promise' = ResetPromise(promise, a)
                  /\ pc' = [pc EXCEPT ![c] = "threw"]
                  /\ UNCHANGED <<conn, ret>>
    /\ jobs' = Tail(jobs)
    /\ UNCHANGED <<driver, attempts, reactions, running, awaits>>
    /\ UNCHANGED <<timeVars, eventVars, bookVars>>

ConnNext ==
    \/ StartTask
    \/ RunUserJob
    \/ Defer
    \/ EndRun
    \/ \E c \in Callers : ConnectDB(c)
    \/ \E a \in AttemptIds, b \in BOOLEAN : DriverSettle(a, b)
    \/ RunSettleJob
    \/ RunResumeJob

\* ================================================================
\* Strings
\* ================================================================

Whitespace == {" ", "\t"}
Digits     == {"0", "1", "2", "3", "4", "5", "6", "7", "8", "9"}
LowerLetters ==
    {"a", "b", "c", "d", "e", "f", "g", "h", "i", "j", "k", "l", "m", "n",
     "o", "p", "q", "r", "s", "t", "u", "v", "w", "x", "y", "z"}

DigitVal(ch) ==
    CASE ch = "0" -> 0 [] ch = "1" -> 1 [] ch = "2" -> 2 [] ch = "3" -> 3
      [] ch = "4" -> 4 [] ch = "5" -> 5 [] ch = "6" -> 6 [] ch = "7" -> 7
      [] ch = "8" -> 8 [] ch = "9" -> 9

DigitChar(n) ==
    CASE n = 0 -> "0" [] n = 1 -> "1" [] n = 2 -> "2" [] n = 3 -> "3"
      [] n = 4 -> "4" [] n = 5 -> "5" [] n = 6 -> "6" [] n = 7 -> "7"
      [] n = 8 -> "8" [] n = 9 -> "9"

\* String.prototype.toLowerCase, on the letters the inputs use
LowerChar(ch) ==
    CASE ch = "A" -> "a" [] ch = "B" -> "b" [] ch = "C" -> "c"
      [] ch = "H" -> "h" [] ch = "M" -> "m" [] ch = "P" -> "p"
      [] ch = "S" -> "s" [] ch = "X" -> "x" [] OTHER -> ch

ToLower(s) == [i \in 1..Len(s) |-> LowerChar(s[i])]

RECURSIVE TrimLeft(_)
TrimLeft(s) ==
    IF s # <<>> /\ Head(s) \in Whitespace THEN TrimLeft(Tail(s)) ELSE s

RECURSIVE TrimRight(_)
TrimRight(s) ==
    IF s # <<>> /\ s[Len(s)] \in Whitespace
      THEN TrimRight(SubSeq(s, 1, Len(s) - 1))
      ELSE s

\* String.prototype.trim
Trim(s) == TrimRight(TrimLeft(s))

\* parseInt(s, 10) of a string of one or two digits
ParseInt(s) ==
    IF Len(s) = 1 THEN DigitVal(s[1]) ELSE 10 * DigitVal(s[1]) + DigitVal(s[2])

\* String(n).padStart(2, '0') for 0 <= n <= 99
Pad2(n) == <<DigitChar(n \div 10), DigitChar(n % 10)>>

Thrown == [ok |-> FALSE, val |-> <<>>]
Value(v) == [ok |-> TRUE, val |-> v]

\* ================================================================
\* normalizeTime
\* ================================================================

\* /^([01]\d|2[0-3]):([0-5]\d)$/
hhmmMatch(s) ==
    /\ Len(s) = 5
    /\ \/ s[1] \in {"0", "1"} /\ s[2] \in Digits
       \/ s[1] = "2" /\ s[2] \in {"0", "1", "2", "3"}
    /\ s[3] = ":"
    /\ s[4] \in {"0", "1", "2", "3", "4", "5"}
    /\ s[5] \in Digits

\* (1[0-2]|0?\d): the hour group of the 12-hour pattern
HourGroup(h) ==
    \/ Len(h) = 2 /\ h[1] = "1" /\ h[2] \in {"0", "1", "2"}
    \/ Len(h) = 1 /\ h[1] \in Digits
    \/ Len(h) = 2 /\ h[1] = "0" /\ h[2] \in Digits

\* The position of the ':' that ends the hour group, or 0: the group takes
\* one or two characters.
ColonAt(s) ==
    IF Len(s) >= 2 /\ s[2] = ":" THEN 2
    ELSE IF Len(s) >= 3 /\ s[3] = ":" THEN 3
    ELSE 0

\* (1[0-2]|0?\d):([0-5]\d)\s*([AaPp][Mm]) anchored at both ends
TwelveHourCore(s) ==
    LET i == ColonAt(s)
        n == Len(s)
    IN  /\ i # 0
        /\ HourGroup(SubSeq(s, 1, i - 1))
        /\ n >= i + 4
        /\ s[i + 1] \in {"0", "1", "2", "3", "4", "5"}
        /\ s[i + 2] \in Digits
        /\ \A k \in (i + 3)..(n - 2) : s[k] \in Whitespace
        /\ s[n - 1] \in {"A", "a", "P", "p"}
        /\ s[n] \in {"M", "m"}

\* variant 1: /^\s*(1[0-2]|0?\d):([0-5]\d)\s*([AaPp][Mm])\s*$/
\* variant 2: /^(1[0-2]|0?\d):([0-5]\d)\s*([AaPp][Mm])$/
twelveHourMatch(v, s) ==
    IF v = 1 THEN TwelveHourCore(Trim(s)) ELSE TwelveHourCore(s)

normalizeTime(v, time) ==
    LET trimmed == Trim(time)
    IN  IF hhmmMatch(trimmed) THEN Value(trimmed)
        ELSE IF twelveHourMatch(v, trimmed)
          THEN LET s       == Trim(trimmed)
                   i       == ColonAt(s)
                   parsed  == ParseInt(SubSeq(s, 1, i - 1))
                   minutes == SubSeq(s, i + 1, i + 2)
                   period  == ToLower(SubSeq(s, Len(s) - 1, Len(s)))
                   h1      == IF period = <<"p", "m">> /\ parsed # 12
                                THEN parsed + 12 ELSE parsed
                   hours   == IF period = <<"a", "m">> /\ h1 = 12 THEN 0 ELSE h1
               IN  Value(Pad2(hours) \o <<":">> \o minutes)
        ELSE Thrown

Pending == [ok |-> FALSE, val |-> <<"?">>]

\* The arguments normalizeTime is applied to: an hour, ':', minutes, an
\* optional meridiem, with optional whitespace around and between.
TimeHours    == {<<"0">>, <<"0", "0">>, <<"3">>, <<"0", "3">>, <<"1", "0">>,
                 <<"1", "2">>, <<"1", "3">>, <<"2", "3">>, <<"2", "4">>, <<>>}
TimeMinutes  == {<<"0", "0">>, <<"1", "5">>, <<"3", "0">>, <<"5", "9">>,
                 <<"6", "1">>, <<"5">>}
TimePads     == {<<>>, <<" ">>}
TimePeriods  == {<<>>, <<"a", "m">>, <<"p", "m">>, <<"A", "M">>, <<"P", "m">>,
                 <<"x", "m">>}
TimeInputs ==
    {lead \o h \o <<":">> \o m \o gap \o mer \o trail :
        lead \in TimePads, h \in TimeHours, m \in TimeMinutes,
        gap \in TimePads, mer \in TimePeriods, trail \in TimePads}

\* this.time = normalizeTime(this.time)
NormalizeTime ==
    /\ timeOut = Pending
    /\ timeOut' = normalizeTime(evariant, timeIn)
    /\ UNCHANGED <<timeIn, connVars, eventVars, bookVars>>

\* ================================================================
\* Event model
\* ================================================================

\* Events the collection holds at most
MaxEvents == 2

\* ---- generateSlug ----

SlugChar(ch) == ch \in LowerLetters \cup Digits

RECURSIVE DropNonSlug(_)
DropNonSlug(s) ==
    IF s # <<>> /\ ~SlugChar(Head(s)) THEN DropNonSlug(Tail(s)) ELSE s

\* .replace(/[^a-z0-9]+/g, '-')
RECURSIVE DashRuns(_)
DashRuns(s) ==
    IF s = <<>> THEN <<>>
    ELSE IF SlugChar(Head(s)) THEN <<Head(s)>> \o DashRuns(Tail(s))
    ELSE <<"-">> \o DashRuns(DropNonSlug(Tail(s)))

RECURSIVE StripLeft(_)
StripLeft(s) == IF s # <<>> /\ Head(s) = "-" THEN StripLeft(Tail(s)) ELSE s

RECURSIVE StripRight(_)
StripRight(s) ==
    IF s # <<>> /\ s[Len(s)] = "-" THEN StripRight(SubSeq(s, 1, Len(s) - 1)) ELSE s

\* .replace(/^-+|-+$/g, '')
StripDashes(s) == StripRight(StripLeft(s))

\* variant 1 trims then lower-cases, variant 2 lower-cases then trims
generateSlug(v, title) ==
    IF v = 1
      THEN StripDashes(DashRuns(ToLower(Trim(title))))
      ELSE StripDashes(DashRuns(Trim(ToLower(title))))

\* ---- normalizeDate ----

NaN == [valid |-> FALSE, y |-> <<>>, m |-> 0, d |-> 0]

IsoDate(s) ==
    /\ Len(s) >= 10
    /\ \A i \in {1, 2, 3, 4, 6, 7, 9, 10} : s[i] \in Digits
    /\ s[5] = "-" /\ s[8] = "-"
    /\ ParseInt(SubSeq(s, 6, 7)) \in 1..12
    /\ ParseInt(SubSeq(s, 9, 10)) \in 1..28

\* THH:mmZ after the date
IsoTimeZ(s) ==
    /\ Len(s) = 7
    /\ s[1] = "T" /\ s[4] = ":" /\ s[7] = "Z"
    /\ hhmmMatch(SubSeq(s, 2, 6))

\* new Date(date), for the strings of DateInputs and the canonical dates:
\* an ISO date (UTC midnight), an ISO date and time in UTC, anything else of
\* those inputs is an Invalid Date.
DateParse(s) ==
    IF IsoDate(s) /\ (Len(s) = 10 \/ IsoTimeZ(SubSeq(s, 11, Len(s))))
      THEN [valid |-> TRUE, y |-> SubSeq(s, 1, 4),
            m |-> ParseInt(SubSeq(s, 6, 7)), d |-> ParseInt(SubSeq(s, 9, 10))]
      ELSE NaN

normalizeDate(date) ==
    LET parsed == DateParse(date)
    IN  IF ~parsed.valid THEN Thrown
        ELSE Value(parsed.y \o <<"-">> \o Pad2(parsed.m) \o <<"-">> \o Pad2(parsed.d))

\* ---- schema ----

StringFields ==
    {"title", "slug", "description", "overview", "image", "venue", "location",
     "date", "time", "mode", "audience", "organizer"}
ListFields == {"agenda", "tags"}
Fields == StringFields \cup ListFields

\* the paths declared trim: true
TrimFields(v) ==
    IF v = 1
      THEN {"title", "description", "overview", "image", "venue", "location",
            "mode", "audience", "organizer"}
      ELSE {"title", "description", "overview", "image", "venue", "location",
            "audience", "organizer"}

\* the paths declared lowercase: true
LowercaseFields(v) == IF v = 1 THEN {} ELSE {"slug", "mode"}

\* the string paths declared required
RequiredStrings(v) == IF v = 1 THEN StringFields ELSE StringFields \ {"slug"}

\* enum: { values: ['online', 'offline', 'hybrid'] } of variant 2
ModeEnum ==
    {<<"o", "n", "l", "i", "n", "e">>, <<"o", "f", "f", "l", "i", "n", "e">>,
     <<"h", "y", "b", "r", "i", "d">>}

\* Whether the schema restricts mode to the enum.
HasModeEnum(v) == v = 2

\* Whether the schema validates agenda and tags as non-empty (variant 2).
HasListValidator(v) == v = 2

\* The setters a path's value passes through when it is assigned.
SetPath(v, f, x) ==
    LET t == IF f \in TrimFields(v) THEN Trim(x) ELSE x
    IN  IF f \in LowercaseFields(v) THEN ToLower(t) ELSE t

\* new Event(fields): every path through its setters
CastDoc(v, fields) == [f \in Fields |-> SetPath(v, f, fields[f])]

\* The schema validation save() runs before the pre-save hook: the errors of
\* the paths that fail.  A required array passes when it is an array.
Validate(v, doc) ==
    (IF \E f \in RequiredStrings(v) : doc[f] = <<>>
       THEN {"RequiredFieldMissing"} ELSE {})
    \cup (IF HasModeEnum(v) /\ doc.mode # <<>> /\ doc.mode \notin ModeEnum
            THEN {"InvalidEnumValue"} ELSE {})
    \cup (IF HasListValidator(v) /\ (doc.agenda = <<>> \/ doc.tags = <<>>)
            THEN {"EmptyListField"} ELSE {})

\* ---- pre-save hook ----

\* the fields the hook of variant 1 passes to assertNonEmpty
NonEmptyFields ==
    {"title", "description", "overview", "image", "venue", "location", "mode",
     "audience", "organizer"}

\* assertNonEmpty(field, value) throws
IsEmptyString(x) == Trim(x) = <<>>

\* if (this.isModified('title') || !this.slug)   [variant 1]
\* if (this.isModified('title'))                 [variant 2]
RegenerateSlug(v, doc, mod) ==
    IF v = 1 THEN "title" \in mod \/ doc.slug = <<>> ELSE "title" \in mod

Outcome(e, doc) == [err |-> e, doc |-> doc]

\* The slug, date and time steps, in the order of the hook; the document
\* keeps what was assigned before a step throws.
Normalize(v, doc, mod) ==
    LET d1 == IF RegenerateSlug(v, doc, mod)
                THEN [doc EXCEPT !.slug = SetPath(v, "slug", generateSlug(v, doc.title))]
                ELSE doc
        nd == normalizeDate(d1.date)
        d2 == IF "date" \in mod /\ nd.ok THEN [d1 EXCEPT !.date = nd.val] ELSE d1
        nt == normalizeTime(v, d2.time)
        d3 == IF "time" \in mod /\ nt.ok THEN [d2 EXCEPT !.time = nt.val] ELSE d2
    IN  IF "date" \in mod /\ ~nd.ok THEN Outcome({"InvalidDate"}, d1)
        ELSE IF "time" \in mod /\ ~nt.ok THEN Outcome({"InvalidTime"}, d2)
        ELSE Outcome({}, d3)

\* EventSchema.pre('save'): the error passed to next (none: {}) and the
\* document as the hook leaves it.
preSave(v, doc, mod) ==
    IF v = 1 /\ \E f \in NonEmptyFields : IsEmptyString(doc[f])
      THEN Outcome({"RequiredFieldMissing"}, doc)
    ELSE IF v = 1 /\ (doc.agenda = <<>> \/ doc.tags = <<>>)
      THEN Outcome({"EmptyListField"}, doc)
    ELSE Normalize(v, doc, mod)

\* ---- the collection ----

\* The unique index on slug: another persisted Event already has this slug.
SlugTakenMutant(id, slug) == FALSE
SlugTaken(id, slug) ==
    \E j \in 1..Len(events) : j # id /\ events[j].slug = slug

\* What a failed save writes to the collection.
AbortedWriteMutant(id, doc) ==
    IF id \in 1..Len(events) THEN [events EXCEPT ![id] = doc] ELSE Append(events, doc)
AbortedWrite(id, doc) == events

\* doc.save(): validation, the pre-save hook, then the write under the unique
\* index.  [err, doc, events]: the error, the document in memory, the collection.
Save(v, id, doc, mod) ==
    LET verr == Validate(v, doc)
        hook == preSave(v, doc, mod)
    IN  IF verr # {}
          THEN [err |-> verr, doc |-> doc, events |-> AbortedWrite(id, doc)]
        ELSE IF hook.err # {}
          THEN [err |-> hook.err, doc |-> hook.doc, events |-> AbortedWrite(id, hook.doc)]
        ELSE IF SlugTaken(id, hook.doc.slug)
          THEN [err |-> {"DuplicateKey"}, doc |-> hook.doc, events |-> events]
        ELSE [err |-> {}, doc |-> hook.doc,
              events |-> IF id \in 1..Len(events)
                           THEN [events EXCEPT ![id] = hook.doc]
                           ELSE Append(events, hook.doc)]

\* ---- inputs ----

TitleAB   == <<"A", " ", "b">>
TitleDash == <<" ", "a", "-", "b">>
TitleC    == <<"c">>
Hybrid    == <<"h", "y", "b", "r", "i", "d">>
Virtual   == <<"v", "i", "r", "t", "u", "a", "l">>
GoodDate  == <<"2", "0", "2", "4", "-", "0", "1", "-", "0", "5", "T", "1", "0", ":", "0", "0", "Z">>
BadDate   == <<"2", "0", "2", "4", "-", "1", "3", "-", "4", "0">>
GoodTime  == <<"3", ":", "3", "0", " ", "p", "m">>
BadTime   == <<"1", "3", ":", "6", "1">>
X         == <<"x">>

BaseEvent ==
    [title |-> TitleAB, slug |-> <<"S">>, description |-> X, overview |-> X,
     image |-> X, venue |-> X, location |-> X, date |-> GoodDate,
     time |-> GoodTime, mode |-> Hybrid, audience |-> X, agenda |-> <<X>>,
     organizer |-> X, tags |-> <<X>>]

\* The field objects passed to Event.create
Drafts ==
    {[BaseEvent EXCEPT !.title = t] : t \in {TitleAB, TitleDash, TitleC}}
    \cup {[BaseEvent EXCEPT ![f] = <<>>] :
            f \in {"slug", "description", "mode", "agenda", "tags"}}
    \cup {[BaseEvent EXCEPT !.venue = <<" ">>],
          [BaseEvent EXCEPT !.title = TitleC, !.mode = Virtual],
          [BaseEvent EXCEPT !.date = BadDate],
          [BaseEvent EXCEPT !.title = TitleC, !.time = BadTime]}

\* The assignments an update makes to a loaded document before saving it
Patches ==
    {[title |-> t] : t \in {TitleAB, TitleDash, TitleC}}
    \cup {[slug |-> s] : s \in {<<>>, <<"S">>}}
    \cup {[date |-> GoodDate], [time |-> BadTime], [tags |-> <<>>],
          [title |-> TitleC, time |-> BadTime],
          [title |-> TitleAB, date |-> BadDate]}

NoOp == [op |-> "none", id |-> 0, input |-> <<>>, titleMod |-> FALSE,
         slugIn |-> <<>>, slug |-> <<>>, err |-> {}]

\* Event.create(fields).  (\E x \in {e} binds x to the value of e.)
CreateEvent(fields) ==
    \E doc \in {CastDoc(evariant, fields)} :
    \E mod \in {{f \in Fields : doc[f] # <<>>}} :
    \E r \in {Save(evariant, Len(events) + 1, doc, mod)} :
        /\ Len(r.events) <= MaxEvents
        /\ events' = r.events
        /\ lastE' = [op |-> "create", id |-> Len(events) + 1, input |-> fields,
                     titleMod |-> "title" \in mod, slugIn |-> doc.slug,
                     slug |-> r.doc.slug, err |-> r.err]
        /\ UNCHANGED <<evariant, connVars, timeVars, bookVars>>

\* Event.findById(id), the assignments of patch, then save()
UpdateEvent(id, patch) ==
    /\ id \in 1..Len(events)
    /\ \E old \in {events[id]} :
       \E doc \in {[f \in Fields |->
                      IF f \in DOMAIN patch THEN SetPath(evariant, f, patch[f])
                      ELSE old[f]]} :
       \E mod \in {{f \in Fields : doc[f] # old[f]}} :
       \E r \in {Save(evariant, id, doc, mod)} :
           /\ events' = r.events
           /\ lastE' = [op |-> "update", id |-> id, input |-> patch,
                        titleMod |-> "title" \in mod, slugIn |-> doc.slug,
                        slug |-> r.doc.slug, err |-> r.err]
           /\ UNCHANGED <<evariant, connVars, timeVars, bookVars>>

EventNext ==
    \/ \E fields \in Drafts : CreateEvent(fields)
    \/ \E id \in 1..MaxEvents, patch \in Patches : UpdateEvent(id, patch)

\* ================================================================
\* Booking model
\* ================================================================

\* Bookings the collection holds at most
MaxBookings == 2

\* EMAIL_REGEX = /^[^\s@]+@[^\s@]+\.[^\s@]+$/
EmailMatch(s) ==
    \E i, j \in 1..Len(s) :
        /\ s[i] = "@" /\ s[j] = "."
        /\ 1 < i /\ i + 1 < j /\ j < Len(s)
        /\ \A k \in 1..Len(s) : k # i => s[k] \notin Whitespace \cup {"@"}

\* email: { trim: true, lowercase: true }
SetEmail(x) == ToLower(Trim(x))

\* Event.exists({ _id: eventId })
EventExistsMutant(eid) == TRUE
EventExists(eid) == eid \in 1..Len(events)

\* validate: { validator: (v) => EMAIL_REGEX.test(v) } of variant 2
HasEmailValidator(v) == v = 2

\* BookingSchema.index({ eventId: 1, email: 1 }, { unique: true }) of variant 2
HasUniqueIndexMutant(v) == FALSE
HasUniqueIndex(v) == v = 2

\* The schema validation save() runs before the pre-save hook.
ValidateBooking(v, doc) ==
    (IF doc.email = <<>> THEN {"RequiredFieldMissing"} ELSE {})
    \cup (IF HasEmailValidator(v) /\ ~EmailMatch(doc.email)
            THEN {"InvalidEmail"} ELSE {})

\* BookingSchema.pre('save'): the error passed to next (none: {}).  dbUp is
\* whether the existence query completes; isNew and eidMod are this.isNew and
\* this.isModified('eventId').
preSaveBooking(v, doc, isNew, eidMod, dbUp) ==
    IF v = 1
      THEN IF ~EmailMatch(doc.email) THEN {"InvalidEmail"}
           ELSE IF ~dbUp THEN {"ReferenceCheckFailed"}
           ELSE IF ~EventExists(doc.eventId) THEN {"DanglingReference"}
           ELSE {}
      ELSE IF isNew \/ eidMod
             THEN IF ~dbUp THEN {"ReferenceCheckFailed"}
                  ELSE IF ~EventExists(doc.eventId) THEN {"DanglingReference"}
                  ELSE {}
             ELSE {}

\* Another persisted Booking has this (eventId, email).
PairTaken(doc) ==
    \E k \in 1..Len(bookings) :
        bookings[k].eventId = doc.eventId /\ bookings[k].email = doc.email

\* save() of a new Booking: [err, bookings]
SaveBooking(v, doc, dbUp) ==
    LET verr == ValidateBooking(v, doc)
        herr == preSaveBooking(v, doc, TRUE, TRUE, dbUp)
    IN  IF verr # {} THEN [err |-> verr, bookings |-> bookings]
        ELSE IF herr # {} THEN [err |-> herr, bookings |-> bookings]
        ELSE IF HasUniqueIndex(v) /\ PairTaken(doc)
          THEN [err |-> {"DuplicateBooking"}, bookings |-> bookings]
        ELSE [err |-> {}, bookings |-> Append(bookings, doc)]

\* ---- inputs ----

EmailA     == <<"a", "@", "b", ".", "c">>
EmailAUp   == <<" ", "A", "@", "b", ".", "c">>
EmailX     == <<"x", "@", "b", ".", "c">>
EmailNoTld == <<"a", "@", "b">>
Emails     == {EmailA, EmailAUp, EmailX, EmailNoTld}

\* The Events created while bookings are made: the k-th has the k-th title.
EventTitles == <<TitleAB, TitleC, X, <<"s">>>>

NoBooking == [op |-> "none", eventId |-> 0, email |-> <<>>, dbUp |-> TRUE,
              existed |-> FALSE, dup |-> FALSE, persisted |-> FALSE, err |-> {}]

\* Booking.create({ eventId, email })
CreateBooking(eid, email, dbUp) ==
    \E doc \in {[eventId |-> eid, email |-> SetEmail(email)]} :
    \E r \in {SaveBooking(bvariant, doc, dbUp)} :
        /\ Len(r.bookings) <= MaxBookings
        /\ bookings' = r.bookings
        /\ lastB' = [op |-> "create", eventId |-> eid, email |-> email,
                     dbUp |-> dbUp, existed |-> eid \in 1..Len(events),
                     dup |-> PairTaken(doc),
                     persisted |-> r.bookings # bookings, err |-> r.err]
        /\ UNCHANGED <<bvariant, connVars, timeVars, eventVars>>

\* An Event is created while bookings are being made.
CreateNextEvent ==
    /\ Len(events) < MaxEvents
    /\ CreateEvent([BaseEvent EXCEPT !.title = EventTitles[Len(events) + 1]])

BookNext ==
    \/ \E eid \in 1..(MaxEvents + 1), email \in Emails, dbUp \in BOOLEAN :
          CreateBooking(eid, email, dbUp)
    \/ CreateNextEvent

\* ================================================================
\* Specifications
\* ================================================================

\* The module is loaded: nothing cached, no call made.
InitConn ==
    /\ conn = 0
    /\ promise = 0
    /\ driver = <<>>
    /\ attempts = <<>>
    /\ reactions = <<>>
    /\ jobs = <<>>
    /\ running = FALSE
    /\ pc = [c \in Callers |-> "idle"]
    /\ awaits = [c \in Callers |-> 0]
    /\ ret = [c \in Callers |-> 0]
    /\ timeIn = <<>>
    /\ timeOut = Pending
    /\ evariant = 1
    /\ events = <<>>
    /\ lastE = NoOp
    /\ bvariant = 1
    /\ bookings = <<>>
    /\ lastB = NoBooking

\* The connection manager under any interleaving of callers and the driver.
SpecConn == InitConn /\ [][ConnNext]_vars

\* normalizeTime is about to be applied to an input of TimeInputs.
InitTime ==
    /\ conn = 0
    /\ promise = 0
    /\ driver = <<>>
    /\ attempts = <<>>
    /\ reactions = <<>>
    /\ jobs = <<>>
    /\ running = FALSE
    /\ pc = [c \in Callers |-> "idle"]
    /\ awaits = [c \in Callers |-> 0]
    /\ ret = [c \in Callers |-> 0]
    /\ timeIn \in TimeInputs
    /\ timeOut = Pending
    /\ evariant \in {1, 2}
    /\ events = <<>>
    /\ lastE = NoOp
    /\ bvariant = 1
    /\ bookings = <<>>
    /\ lastB = NoBooking

\* normalizeTime applied to each input of TimeInputs.
SpecTime == InitTime /\ [][NormalizeTime]_vars

\* An empty Event collection, under either variant of the Event model.
InitEvent ==
    /\ conn = 0
    /\ promise = 0
    /\ driver = <<>>
    /\ attempts = <<>>
    /\ reactions = <<>>
    /\ jobs = <<>>
    /\ running = FALSE
    /\ pc = [c \in Callers |-> "idle"]
    /\ awaits = [c \in Callers |-> 0]
    /\ ret = [c \in Callers |-> 0]
    /\ timeIn = <<>>
    /\ timeOut = Pending
    /\ evariant \in {1, 2}
    /\ events = <<>>
    /\ lastE = NoOp
    /\ bvariant = 1
    /\ bookings = <<>>
    /\ lastB = NoBooking

\* The Event model under any sequence of creates and updates.
SpecEvent == InitEvent /\ [][EventNext]_vars

\* Empty collections, under either variant of each model.
InitBooking ==
    /\ conn = 0
    /\ promise = 0
    /\ driver = <<>>
    /\ attempts = <<>>
    /\ reactions = <<>>
    /\ jobs = <<>>
    /\ running = FALSE
    /\ pc = [c \in Callers |-> "idle"]
    /\ awaits = [c \in Callers |-> 0]
    /\ ret = [c \in Callers |-> 0]
    /\ timeIn = <<>>
    /\ timeOut = Pending
    /\ evariant \in {1, 2}
    /\ events = <<>>
    /\ lastE = NoOp
    /\ bvariant \in {1, 2}
    /\ bookings = <<>>
    /\ lastB = NoBooking

\* The Booking model under any sequence of creates, Events being created
\* meanwhile.
SpecBooking == InitBooking /\ [][BookNext]_vars

\* ================================================================
\* Claims: connection manager
\* ================================================================

Called(c) == pc[c] # "idle"

\* The attempts whose underlying mongoose.connect has not settled yet.
InFlight == {a \in 1..Len(driver) : driver[a] = "pending"}

C2_FailureResetsToUnconnected ==
    [][/\ \A c \in Callers :
            /\ (pc[c] = "awaiting" /\ pc'[c] = "threw") =>
                  /\ attempts[awaits[c]] = "rejected"
                  /\ conn' = 0 /\ promise' = 0
                  /\ driver' = driver
            /\ (pc[c] = "awaiting" /\ pc'[c] = "returned") =>
                  attempts[awaits[c]] = "fulfilled"
            /\ (pc[c] = "idle" /\ pc'[c] # "idle" /\ conn = 0 /\ promise = 0) =>
                  /\ Len(driver') = Len(driver) + 1
                  /\ awaits'[c] = Len(driver')
      ]_vars

\* C10: at most one underlying connection attempt is in flight.
C10_AtMostOneInFlight == Cardinality(InFlight) <= 1

\* ================================================================
\* Claims: normalizeTime
\* ================================================================

\* The two shapes as the specification words them.
Claimed24(s) ==
    /\ Len(s) = 5
    /\ s[3] = ":"
    /\ \A i \in {1, 2, 4, 5} : s[i] \in Digits
    /\ ParseInt(SubSeq(s, 1, 2)) \in 0..23
    /\ ParseInt(SubSeq(s, 4, 5)) \in 0..59

Claimed12(s) ==
    \E i \in {2, 3} :
        /\ Len(s) >= i + 4
        /\ s[i] = ":"
        /\ \A k \in 1..(i - 1) : s[k] \in Digits
        /\ ParseInt(SubSeq(s, 1, i - 1)) \in 1..12
        /\ s[i + 1] \in Digits /\ s[i + 2] \in Digits
        /\ ParseInt(SubSeq(s, i + 1, i + 2)) \in 0..59
        /\ \A k \in (i + 3)..(Len(s) - 2) : s[k] \in Whitespace
        /\ ToLower(SubSeq(s, Len(s) - 1, Len(s))) \in {<<"a", "m">>, <<"p", "m">>}

\* 12 AM -> 00, 12 PM -> 12, other PM hours + 12, AM hours unchanged
ClaimedConversion(s) ==
    LET i   == IF s[2] = ":" THEN 2 ELSE 3
        h   == ParseInt(SubSeq(s, 1, i - 1))
        pm  == ToLower(SubSeq(s, Len(s) - 1, Len(s))) = <<"p", "m">>
        h24 == IF pm THEN (IF h = 12 THEN 12 ELSE h + 12)
                     ELSE (IF h = 12 THEN 0 ELSE h)
    IN  Pad2(h24) \o <<":">> \o SubSeq(s, i + 1, i + 2)

ClaimedTime(time) ==
    LET s == Trim(time)
    IN  IF Claimed24(s) THEN Value(s)
        ELSE IF Claimed12(s) THEN Value(ClaimedConversion(s))
        ELSE Thrown

\* C9: normalizeTime returns a 24-hour HH:mm input (hours 00-23, minutes
\* 00-59) as it is, converts a 12-hour h:mm AM/PM input with hours 1-12 by
\* the rule 12 AM -> 00, 12 PM -> 12, other PM hours + 12, and fails with
\* InvalidTime on every other input, a 12-hour input with hour 0 or 00
\* included.
C9_TwoShapesOnly == timeOut # Pending => timeOut = ClaimedTime(timeIn)

\* ================================================================
\* Claims: Event model
\* ================================================================

\* The operation that led to this state ran the pre-save hook to a failure.
HookFailed(op) ==
    op.err \cap {"RequiredFieldMissing", "EmptyListField", "InvalidDate",
                 "InvalidTime"} # {}

\* C4: a create whose mode is none of online, offline, hybrid fails with
\* InvalidEnumValue and persists nothing; a create of an otherwise valid
\* Event with mode hybrid succeeds; every persisted Event has its mode in
\* the enumeration.
C4_ModeEnumerated ==
    /\ (lastE.op = "create" /\ lastE.input.mode # <<>>
                            /\ lastE.input.mode \notin ModeEnum) =>
          /\ "InvalidEnumValue" \in lastE.err
          /\ Len(events) < lastE.id
    /\ (lastE.op = "create" /\ lastE.id = 1
                            /\ lastE.input = [BaseEvent EXCEPT !.title = TitleC]) =>
          /\ lastE.err = {}
          /\ Len(events) = 1
    /\ \A i \in 1..Len(events) : events[i].mode \in ModeEnum

C6_SlugRecomputedWhenDue ==
    /\ (lastE.op # "none" /\ lastE.err = {}) =>
          IF lastE.titleMod \/ lastE.slugIn = <<>>
            THEN events[lastE.id].slug =
                     generateSlug(evariant, events[lastE.id].title)
            ELSE events[lastE.id].slug = lastE.slugIn
    /\ (lastE.op = "create" /\ lastE.id = 1
                            /\ lastE.input = [BaseEvent EXCEPT !.slug = <<>>]) =>
          /\ lastE.err = {}
          /\ Len(events) = 1

DistinctSlugs(es) ==
    \A i, j \in 1..Len(es) : i # j => es[i].slug # es[j].slug

\* C8: no two persisted Events have the same slug, and a create or a title
\* update whose generated slug is the slug of another persisted Event is
\* rejected and leaves the collection as it was.
C8_SlugUnique ==
    [][/\ DistinctSlugs(events')
       /\ (/\ lastE'.op # "none"
           /\ lastE'.titleMod
           /\ \E j \in 1..Len(events) :
                 /\ j # lastE'.id
                 /\ events[j].slug = generateSlug(evariant, lastE'.input.title)) =>
              /\ lastE'.err # {}
              /\ events' = events
      ]_vars

\* C8 witness: the title " a-b" was rejected as a duplicate key while an
\* Event titled "A b", whose slug is also a-b, is persisted.
C8_Witness ==
    /\ lastE.op # "none"
    /\ "title" \in DOMAIN lastE.input
    /\ lastE.input.title = TitleDash
    /\ lastE.err = {"DuplicateKey"}
    /\ \E j \in 1..Len(events) :
          /\ j # lastE.id
          /\ events[j].title = TitleAB
          /\ events[j].slug = generateSlug(evariant, TitleDash)

\* ================================================================
\* Claims: Booking model
\* ================================================================

Dangling(op) == op.op = "create" /\ ~op.existed

WellFormed(op) == EmailMatch(SetEmail(op.email))

ReferencesExist ==
    \A k \in 1..Len(bookings) : bookings[k].eventId \in 1..Len(events)

\* C3 as stated: a create whose eventId is not an existing Event fails with
\* DanglingReference and persists nothing; a create with an existing eventId
\* and a well-formed email succeeds and is persisted; every persisted
\* Booking references an Event that existed when it was saved.
C3_DanglingRejected ==
    /\ Dangling(lastB) => lastB.err = {"DanglingReference"} /\ ~lastB.persisted
    /\ (lastB.op = "create" /\ lastB.existed /\ WellFormed(lastB)) =>
          lastB.err = {} /\ lastB.persisted
    /\ ReferencesExist

\* C3 amended: a create whose eventId is not an existing Event fails and
\* persists nothing, with DanglingReference when the email is well-formed
\* and the existence query completes; a create with an existing eventId and
\* a well-formed email succeeds and is persisted when the existence query
\* completes and the unique index, where declared, has no Booking of that
\* pair; every persisted Booking references an Event that existed when it
\* was saved.
C3_DanglingNeverPersisted ==
    /\ Dangling(lastB) =>
          /\ lastB.err # {}
          /\ ~lastB.persisted
          /\ (WellFormed(lastB) /\ lastB.dbUp) => lastB.err = {"DanglingReference"}
    /\ (/\ lastB.op = "create" /\ lastB.existed /\ WellFormed(lastB)
        /\ lastB.dbUp /\ ~(bvariant = 2 /\ lastB.dup)) =>
          lastB.err = {} /\ lastB.persisted
    /\ ReferencesExist

\* C3 witness: Events and Bookings exist, and a Booking for an eventId that
\* is none of the Events was rejected as dangling.
C3_Witness ==
    /\ Dangling(lastB)
    /\ lastB.err = {"DanglingReference"}
    /\ Len(events) >= 1
    /\ Len(bookings) >= 1

OnePerPair ==
    \A i, j \in 1..Len(bookings) :
        i # j => ~(/\ bookings[i].eventId = bookings[j].eventId
                   /\ bookings[i].email = bookings[j].email)

DuplicateRejected ==
    (lastB.op = "create" /\ lastB.dup /\ lastB.existed /\ lastB.dbUp) =>
        lastB.err = {"DuplicateBooking"} /\ ~lastB.persisted

\* C7 as stated: the collection holds at most one Booking per (eventId,
\* trimmed lower-cased email), and a create for a pair already booked fails
\* with DuplicateBooking and persists nothing.
C7_OneBookingPerPair == OnePerPair /\ DuplicateRejected

\* C7 amended: the same, under the Booking model that declares the unique
\* index on (eventId, email).
C7_OneBookingPerPairIndexed == bvariant = 2 => (OnePerPair /\ DuplicateRejected)

\* C7 witness: under the unique index, " A@b.c" was rejected as a duplicate
\* of the persisted a@b.c.
C7_Witness ==
    /\ bvariant = 2
    /\ lastB.op = "create"
    /\ lastB.email = EmailAUp
    /\ lastB.err = {"DuplicateBooking"}
    /\ \E k \in 1..Len(bookings) :
          bookings[k].eventId = lastB.eventId /\ bookings[k].email = EmailA

====
